---- MODULE Spec2Model ----
(***************************************************************************)
(* Stand allocation engine: the greedy interval-tree allocator, the CP     *)
(* model of the exact allocator and the orchestrator that chooses between  *)
(* them (stand_allocation_engine.py, cp_solver.py, data_structures.py).    *)
(*                                                                         *)
(* A datetime is an integer: minutes since 1900-01-01 00:00.  strptime of  *)
(* "HH:MM" yields a time on 1900-01-01 (day 0, the sentinel date); an ISO  *)
(* date-time yields a time on its own day.                                 *)
(***************************************************************************)
EXTENDS Integers, Sequences, FiniteSets, TLC

VARIABLES flights, stands, maint, conns, settings, bulk,
          score, eng, cp, eng2

vars == <<flights, stands, maint, conns, settings, bulk, score, eng, cp, eng2>>

(***************************************************************************)
(* Bounds of the model.                                                    *)
(***************************************************************************)
\* longest flight list of a greedy scenario
MaxFlights == 3
\* longest flight list of a scenario that requests the solver
MaxSolverFlights == 2
\* calls of run_allocation on one engine
MaxRuns == 2
\* longest flight list handed to the connection tracker
MaxTrackedFlights == 2

(***************************************************************************)
(* Program constants.                                                      *)
(***************************************************************************)
MinutesPerDay == 1440
Day2000 == 36524
SolverThreshold == 25000
DefaultTurnaround == 45
TimeOnlyHorizon == 2880
HorizonBuffer == 43200
UNALLOCATED_STAND == -1

(***************************************************************************)
(* Sequence helpers.                                                       *)
(***************************************************************************)
Range(s) == {s[i] : i \in DOMAIN s}

RECURSIVE SelectSeqIdx(_, _, _)
\* the subsequence of s at the positions (in order, from i on) that lie in keep
SelectSeqIdx(s, keep, i) ==
  IF i > Len(s) THEN <<>>
  ELSE (IF i \in keep THEN <<s[i]>> ELSE <<>>) \o SelectSeqIdx(s, keep, i + 1)

Min(S) == CHOOSE x \in S : \A y \in S : x <= y
Max(S) == CHOOSE x \in S : \A y \in S : x >= y

(***************************************************************************)
(* Time (data_structures.py, datetime).                                    *)
(***************************************************************************)
DateTime(day, h, m) == (day * 24 + h) * 60 + m
DayOf(dt) == dt \div MinutesPerDay
MinuteOfDay(dt) == dt % MinutesPerDay
\* dt.date() == datetime(1900, 1, 1).date()
IsSentinelDate(dt) == DayOf(dt) = 0
\* dt.year == 1900
Year1900(dt) == DayOf(dt) >= 0 /\ DayOf(dt) < 365

\* calculate_time_difference_minutes(start_time, end_time)
calculate_time_difference_minutes(start_time, end_time) ==
  LET e == IF end_time < start_time /\ DayOf(start_time) = DayOf(end_time)
           THEN end_time + MinutesPerDay
           ELSE end_time
  IN e - start_time

\* strftime("%Y-%m-%d %H:%M") when the date is not the sentinel, else "%H:%M"
FormatTime(dt) ==
  IF ~IsSentinelDate(dt)
  THEN [date |-> <<DayOf(dt)>>, hm |-> MinuteOfDay(dt)]
  ELSE [date |-> <<>>, hm |-> MinuteOfDay(dt)]

(***************************************************************************)
(* Aircraft categories.  An aircraft type string is modelled by the set of *)
(* the type tokens it contains (all the code asks of it is `tok in type`). *)
(***************************************************************************)
narrow_types == {"A320", "B737", "E190", "CRJ", "A220", "B717", "A319"}
wide_types == {"B777", "B787", "A330", "A350", "B767", "B757"}
super_types == {"A380", "B747", "AN225"}

get_aircraft_category(aircraft_type) ==
  IF aircraft_type \cap narrow_types # {} THEN "Narrow"
  ELSE IF aircraft_type \cap wide_types # {} THEN "Wide"
  ELSE IF aircraft_type \cap super_types # {} THEN "Super"
  ELSE "Narrow"

compatibility(category) ==
  CASE category = "Narrow" -> {"Narrow", "Wide", "Super"}
    [] category = "Wide" -> {"Wide", "Super"}
    [] category = "Super" -> {"Super"}
    [] OTHER -> {}

is_aircraft_compatible(aircraft_type, stand_size_limit) ==
  stand_size_limit \in compatibility(get_aircraft_category(aircraft_type))

(***************************************************************************)
(* The scenarios: flights, stands, airlines, maintenance, connections.     *)
(***************************************************************************)
NoLink == ""

Flight(id, isArr, time, type, airline, link, crit) ==
  [FlightID |-> id, IsArrival |-> isArr, parsed_time |-> time,
   AircraftType |-> type, AirlineCode |-> airline, LinkID |-> link,
   is_critical_connection |-> crit, base_priority_score |-> 0]

\* flights given as "HH:MM"
TimeOnlyPool ==
  { Flight("F1", TRUE, DateTime(0, 8, 0), {"A320"}, "AA", NoLink, FALSE),
    Flight("F2", TRUE, DateTime(0, 9, 0), {"A320"}, "AA", "L1", FALSE),
    Flight("F3", FALSE, DateTime(0, 10, 30), {"A320"}, "AA", "L1", FALSE),
    Flight("F4", TRUE, DateTime(0, 8, 45), {"A320"}, "AA", NoLink, FALSE),
    Flight("F5", TRUE, DateTime(0, 8, 0), {"A320"}, "AA", NoLink, FALSE),
    Flight("F7", TRUE, DateTime(0, 8, 0), {"A380"}, "AA", NoLink, TRUE),
    Flight("F9", FALSE, DateTime(0, 0, 20), {"A320"}, "ZZ", NoLink, FALSE),
    Flight("F10", TRUE, DateTime(0, 23, 30), {"A320"}, "AA", "L2", FALSE),
    Flight("F11", FALSE, DateTime(0, 1, 0), {"A320"}, "AA", "L2", FALSE),
    Flight("F12", FALSE, DateTime(0, 10, 30), {"A380"}, "BB", "L1", FALSE) }

\* the day of the date-time scenarios
ScenarioDay == Day2000 + 9000

\* flights given as "YYYY-MM-DDTHH:MM"
DateTimePool ==
  { Flight("G1", TRUE, DateTime(ScenarioDay, 10, 0), {"A320"}, "AA", NoLink, FALSE),
    Flight("G2", TRUE, DateTime(ScenarioDay, 10, 45), {"A320"}, "AA", NoLink, FALSE),
    Flight("G3", TRUE, DateTime(ScenarioDay, 23, 30), {"A320"}, "AA", "L1", FALSE),
    Flight("G4", FALSE, DateTime(ScenarioDay + 1, 1, 0), {"A320"}, "AA", "L1", FALSE),
    Flight("G5", TRUE, DateTime(ScenarioDay, 12, 0), {"A320"}, "AA", "L2", FALSE),
    Flight("G6", FALSE, DateTime(ScenarioDay, 12, 0), {"A320"}, "AA", "L2", FALSE),
    Flight("G7", FALSE, DateTime(ScenarioDay, 0, 20), {"A320"}, "ZZ", NoLink, FALSE) }

FlightIDs == {f.FlightID : f \in TimeOnlyPool \cup DateTimePool}

\* the lists of at most n distinct flights of a pool
FlightLists(pool, n) ==
  UNION { {s \in [1..k -> pool] : \A i, j \in 1..k : i # j => s[i] # s[j]} : k \in 0..n }

Stand(name, terminal, contact, size) ==
  [StandName |-> name, Terminal |-> terminal, IsContactStand |-> contact, SizeLimit |-> size]

A1 == Stand("A1", "T1", TRUE, "Narrow")
S1 == Stand("S1", "T1", TRUE, "Super")
R2 == Stand("R2", "T2", FALSE, "Wide")

airlines ==
  << [AirlineCode |-> "AA", BaseTerminal |-> "T1", RequiresContactStand |-> TRUE, priority_tier |-> 1],
     [AirlineCode |-> "BB", BaseTerminal |-> "T2", RequiresContactStand |-> FALSE, priority_tier |-> 2] >>

MaintenanceEntry(stand, start, end) ==
  [StandName |-> stand, parsed_start_time |-> start, parsed_end_time |-> end]

TransferWindow(min, max, critical) ==
  [min_transfer_minutes |-> min, max_transfer_minutes |-> max, is_critical |-> critical]

Connection(arrival, departure, window) ==
  [arrival |-> arrival, departure |-> departure, window |-> window]

Airport(standList, maintList, connList) ==
  [stands |-> standList, maint |-> maintList, conns |-> connList]

TimeOnlyAirports ==
  { Airport(<<A1>>, <<>>, <<>>),
    Airport(<<A1>>, <<MaintenanceEntry("A1", DateTime(0, 10, 0), DateTime(0, 11, 0))>>, <<>>),
    Airport(<<A1>>, <<MaintenanceEntry("A1", DateTime(0, 22, 0), DateTime(0, 2, 0))>>, <<>>),
    Airport(<<A1>>, <<MaintenanceEntry("A1", DateTime(0, 8, 45), DateTime(0, 9, 0))>>, <<>>),
    Airport(<<S1>>, <<>>, <<>>),
    Airport(<<A1, S1>>, <<>>, <<>>),
    Airport(<<R2, A1>>, <<>>, <<Connection("F10", "F9", TransferWindow(30, 180, FALSE))>>) }

\* three stands, two of them in the terminal of a connecting flight
ProximityAirports ==
  { Airport(<<R2, A1, S1>>, <<>>, <<Connection("F10", "F9", TransferWindow(30, 180, FALSE))>>) }

DateTimeAirports ==
  { Airport(<<A1>>, <<>>, <<>>),
    Airport(<<A1>>, <<MaintenanceEntry("A1", DateTime(ScenarioDay, 10, 0),
                                       DateTime(ScenarioDay, 11, 0))>>, <<>>),
    Airport(<<A1>>, <<MaintenanceEntry("A1", DateTime(ScenarioDay, 11, 0),
                                       DateTime(ScenarioDay, 10, 0))>>, <<>>),
    Airport(<<A1, S1>>, <<>>, <<>>) }

GapValues == {0, 15}

default_weights ==
  [aircraft_type_A380 |-> 10, aircraft_type_B747 |-> 8, aircraft_type_wide |-> 5,
   airline_tier |-> 2, requires_contact_stand |-> 3, critical_connection |-> 5,
   base_score |-> 1]

Settings(gap, useSolver, forceSolver) ==
  [GapBetweenFlights |-> gap,
   TurnaroundTimeSettings |-> [Default |-> 45, Wide |-> 60],
   prioritization_weights |-> default_weights,
   use_solver |-> useSolver, force_solver |-> forceSolver]

(***************************************************************************)
(* Lookups.                                                                *)
(***************************************************************************)
FlightOf(id) == CHOOSE f \in Range(flights) : f.FlightID = id
HasFlight(id) == \E f \in Range(flights) : f.FlightID = id

NoAirline ==
  [AirlineCode |-> "", BaseTerminal |-> "", RequiresContactStand |-> FALSE, priority_tier |-> 0]

\* _get_airline: airline_map.get(airline_code, None)
get_airline(airline_code) ==
  IF \E i \in DOMAIN airlines : airlines[i].AirlineCode = airline_code
  THEN airlines[Max({i \in DOMAIN airlines : airlines[i].AirlineCode = airline_code})]
  ELSE NoAirline

Known(airline) == airline # NoAirline

\* settings.TurnaroundTimeSettings.get(category, settings.TurnaroundTimeSettings.get("Default", 45))
turnaround_minutes(aircraft_type) ==
  LET t == settings.TurnaroundTimeSettings
      c == get_aircraft_category(aircraft_type)
  IN IF c \in DOMAIN t THEN t[c]
     ELSE IF "Default" \in DOMAIN t THEN t["Default"]
     ELSE DefaultTurnaround


(***************************************************************************)
(* Flight operation units (data_structures.py, FlightOperationUnit).       *)
(***************************************************************************)
None == ""

Unit(arrival, departure) == [arrival |-> arrival, departure |-> departure]

is_linked_pair(unit) == unit.arrival # None /\ unit.departure # None

\* the flight the engine calls the unit's flight: arrival if present, else departure
primary(unit) == IF unit.arrival # None THEN unit.arrival ELSE unit.departure

earliest_time_of(unit) == FlightOf(primary(unit)).parsed_time

UnitFlights(unit) == {unit.arrival, unit.departure} \ {None}

(***************************************************************************)
(* Criticality score (stand_allocation_engine.py).  Weights are integers.  *)
(***************************************************************************)
default_weight(key) ==
  CASE key = "base_score" -> 1
    [] key = "aircraft_type_A380" -> 10
    [] key = "aircraft_type_B747" -> 8
    [] key = "aircraft_type_wide" -> 5
    [] key = "airline_tier" -> 2
    [] key = "requires_contact_stand" -> 3
    [] key = "critical_connection" -> 5

\* weights.get(key, default)
weight(key) ==
  LET w == settings.prioritization_weights
  IN IF key \in DOMAIN w THEN w[key] ELSE default_weight(key)

calculate_criticality_score(unit) ==
  LET flight == FlightOf(primary(unit))
      airline == get_airline(flight.AirlineCode)
      type == flight.AircraftType
  IN flight.base_priority_score * weight("base_score")
     + (IF "A380" \in type THEN weight("aircraft_type_A380")
        ELSE IF "B747" \in type THEN weight("aircraft_type_B747")
        ELSE IF type \cap {"B777", "B787", "A330", "A350"} # {} THEN weight("aircraft_type_wide")
        ELSE 0)
     + (IF Known(airline) THEN airline.priority_tier * weight("airline_tier") ELSE 0)
     + (IF Known(airline) /\ airline.RequiresContactStand
        THEN weight("requires_contact_stand") ELSE 0)
     + (IF flight.is_critical_connection THEN weight("critical_connection") ELSE 0)

(***************************************************************************)
(* Processing order (_prepare_flight_processing_order).                    *)
(***************************************************************************)
RECURSIVE SetToSortedSeq(_)
SetToSortedSeq(S) ==
  IF S = {} THEN <<>> ELSE <<Min(S)>> \o SetToSortedSeq(S \ {Min(S)})

\* the positions at which a LinkID appears for the first time, ascending:
\* the key order of the dict flights_by_link_id
link_first_positions ==
  SetToSortedSeq({i \in DOMAIN flights :
                    /\ flights[i].LinkID # NoLink
                    /\ \A j \in 1..(i - 1) : flights[j].LinkID # flights[i].LinkID})

\* the unit of one link group: the last arrival and the last departure of the group
linked_unit(link_id) ==
  LET arrs == {i \in DOMAIN flights : flights[i].LinkID = link_id /\ flights[i].IsArrival}
      deps == {i \in DOMAIN flights : flights[i].LinkID = link_id /\ ~flights[i].IsArrival}
  IN Unit(IF arrs # {} THEN flights[Max(arrs)].FlightID ELSE None,
          IF deps # {} THEN flights[Max(deps)].FlightID ELSE None)

single_unit(flight) ==
  IF flight.IsArrival THEN Unit(flight.FlightID, None) ELSE Unit(None, flight.FlightID)

\* Step 1 and 2: the units in creation order
create_flight_units ==
  LET linked == [k \in DOMAIN link_first_positions |->
                   linked_unit(flights[link_first_positions[k]].LinkID)]
      singles == SelectSeqIdx(flights, {i \in DOMAIN flights : flights[i].LinkID = NoLink}, 1)
  IN linked \o [k \in DOMAIN singles |-> single_unit(singles[k])]

\* Step 3: flight.criticality_score of every unit's flight is set
scored(units, sc) ==
  [id \in DOMAIN sc |->
     IF \E k \in DOMAIN units : primary(units[k]) = id
     THEN calculate_criticality_score(CHOOSE u \in Range(units) : primary(u) = id)
     ELSE sc[id]]

\* sort_key with the score ascending
sort_key_ascending(unit, sc) == <<sc[primary(unit)], earliest_time_of(unit)>>

\* sort_key(unit)
sort_key(unit, sc) == <<0 - sc[primary(unit)], earliest_time_of(unit)>>

key_less(a, b) == a[1] < b[1] \/ (a[1] = b[1] /\ a[2] < b[2])

\* one insertion of list.sort: u goes before the first element with a greater key
insert_sorted(sorted, u, sc) ==
  LET later == {i \in DOMAIN sorted : key_less(sort_key(u, sc), sort_key(sorted[i], sc))}
      pos == IF later = {} THEN Len(sorted) + 1 ELSE Min(later)
  IN SubSeq(sorted, 1, pos - 1) \o <<u>> \o SubSeq(sorted, pos, Len(sorted))

RECURSIVE stable_sort_from(_, _, _, _)
stable_sort_from(units, sorted, i, sc) ==
  IF i > Len(units) THEN sorted
  ELSE stable_sort_from(units, insert_sorted(sorted, units[i], sc), i + 1, sc)

\* the orders an unstable sort could leave: every arrangement sorted by key
sort_results_unstable(units, sc) ==
  {[k \in DOMAIN units |-> units[p[k]]] : p \in
     {q \in [DOMAIN units -> DOMAIN units] :
        /\ \A i, j \in DOMAIN units : i # j => q[i] # q[j]
        /\ \A i, j \in DOMAIN units :
             i < j => ~key_less(sort_key(units[q[j]], sc), sort_key(units[q[i]], sc))}}

\* flight_units.sort(key=sort_key): the orders the sort can leave (it is stable: one)
sort_results(units, sc) == {stable_sort_from(units, <<>>, 1, sc)}


(***************************************************************************)
(* Connection tracker (data_structures.py, FlightConnectionTracker).       *)
(* The tracker's dict is the set of its entries, one per key.              *)
(***************************************************************************)
\* add_connection: what it leaves in self.connections
add_connection(connections, arrival_flight, departure_flight, transfer_window) ==
  IF arrival_flight.IsArrival /\ ~departure_flight.IsArrival
  THEN {c \in connections : ~(c.arrival = arrival_flight.FlightID
                               /\ c.departure = departure_flight.FlightID)}
       \cup {Connection(arrival_flight.FlightID, departure_flight.FlightID, transfer_window)}
  ELSE connections

\* add_connection marking the arrival only
mark_critical_arrival_only(flightList, arrival_flight, departure_flight, transfer_window) ==
  IF arrival_flight.IsArrival /\ ~departure_flight.IsArrival /\ transfer_window.is_critical
  THEN [i \in DOMAIN flightList |->
          IF flightList[i].FlightID = arrival_flight.FlightID
          THEN [flightList[i] EXCEPT !.is_critical_connection = TRUE]
          ELSE flightList[i]]
  ELSE flightList

\* add_connection: what it leaves in the flight list (the critical marks)
mark_critical(flightList, arrival_flight, departure_flight, transfer_window) ==
  IF arrival_flight.IsArrival /\ ~departure_flight.IsArrival /\ transfer_window.is_critical
  THEN [i \in DOMAIN flightList |->
          IF flightList[i].FlightID \in {arrival_flight.FlightID, departure_flight.FlightID}
          THEN [flightList[i] EXCEPT !.is_critical_connection = TRUE]
          ELSE flightList[i]]
  ELSE flightList

RECURSIVE load_connections(_, _, _, _)
\* load_connections: the tracker and the flight list after the entries from i on
load_connections(flightList, connList, i, tracker) ==
  IF i > Len(connList) THEN [flights |-> flightList, connections |-> tracker]
  ELSE LET c == connList[i]
           found(id) == \E f \in Range(flightList) : f.FlightID = id
           get(id) == CHOOSE f \in Range(flightList) : f.FlightID = id
       IN IF ~found(c.arrival) \/ ~found(c.departure)
          THEN load_connections(flightList, connList, i + 1, tracker)
          ELSE load_connections(
                 mark_critical(flightList, get(c.arrival), get(c.departure), c.window),
                 connList, i + 1,
                 add_connection(tracker, get(c.arrival), get(c.departure), c.window))

\* get_transfer_window: the entries under the key (at most one)
get_transfer_window(arrival_flight, departure_flight) ==
  {c.window : c \in {d \in conns : d.arrival = arrival_flight.FlightID
                                     /\ d.departure = departure_flight.FlightID}}

is_valid_connection_time(arrival_flight, departure_flight) ==
  \E w \in get_transfer_window(arrival_flight, departure_flight) :
    LET time_diff_minutes == calculate_time_difference_minutes(
                               arrival_flight.parsed_time, departure_flight.parsed_time)
    IN w.min_transfer_minutes <= time_diff_minutes
       /\ time_diff_minutes <= w.max_transfer_minutes

(***************************************************************************)
(* The engine (stand_allocation_engine.py).  An interval tree is the set   *)
(* of its intervals; overlap(b, e) is intervaltree's range query.          *)
(***************************************************************************)
Interval(begin, end, type, entry, arrival, departure) ==
  [begin |-> begin, end |-> end, type |-> type, entry |-> entry,
   arrival |-> arrival, departure |-> departure]

\* IntervalTree.overlap(begin, end)
overlap(tree, begin, end) ==
  IF begin >= end THEN {}
  ELSE {iv \in tree : iv.begin < end /\ iv.end > begin}

earliest_time ==
  IF flights = <<>> THEN DateTime(Day2000, 0, 0)
  ELSE Min({f.parsed_time : f \in Range(flights)})

datetime_to_timestamp(dt) ==
  IF IsSentinelDate(dt)
  THEN MinuteOfDay(dt)
  ELSE LET ref_date == IF Year1900(earliest_time) THEN Day2000 ELSE DayOf(earliest_time)
       IN (DayOf(dt) - ref_date) * MinutesPerDay + MinuteOfDay(dt)

\* __init__: the interval a maintenance entry is given in its stand's tree
maintenance_interval(entry) ==
  LET start_timestamp == datetime_to_timestamp(entry.parsed_start_time)
      end_timestamp == datetime_to_timestamp(entry.parsed_end_time)
  IN Interval(start_timestamp,
              IF end_timestamp <= start_timestamp THEN start_timestamp + 1 ELSE end_timestamp,
              "maintenance", <<entry>>, None, None)

StandNames == {stands[i].StandName : i \in DOMAIN stands}
FlightIds == {flights[i].FlightID : i \in DOMAIN flights}

\* __init__: the engine as constructed
new_engine ==
  [pc |-> "init",
   path |-> <<"init">>,
   stand_occupancy_log |->
     [name \in StandNames |->
        {maintenance_interval(m) : m \in {x \in Range(maint) : x.StandName = name}}],
   allocated_flights_report |-> <<>>,
   unallocated_flights_report |-> <<>>,
   flight_allocations |-> [id \in FlightIds |-> None],
   flight_terminals |-> [id \in FlightIds |-> None],
   flight_units |-> <<>>,
   next_unit |-> 1,
   ai_log |-> <<>>,
   returned |-> <<>>]

\* _calculate_stand_occupancy_duration: <<start_time, end_time>>
calculate_stand_occupancy_duration(unit) ==
  IF is_linked_pair(unit)
  THEN LET start_time == FlightOf(unit.arrival).parsed_time
           end_time == FlightOf(unit.departure).parsed_time
       IN IF end_time <= start_time /\ IsSentinelDate(start_time) /\ IsSentinelDate(end_time)
          THEN <<start_time, end_time + MinutesPerDay>>
          ELSE <<start_time, end_time>>
  ELSE IF unit.arrival # None
  THEN LET flight == FlightOf(unit.arrival)
       IN <<flight.parsed_time, flight.parsed_time + turnaround_minutes(flight.AircraftType)>>
  ELSE LET flight == FlightOf(unit.departure)
       IN <<flight.parsed_time - turnaround_minutes(flight.AircraftType), flight.parsed_time>>

passes_adjacency_rules(stand) == TRUE

\* the hard filter of _identify_candidate_stands
passes_hard_filter(flight, airline, stand) ==
  /\ ~(Known(airline) /\ airline.BaseTerminal # stand.Terminal)
  /\ is_aircraft_compatible(flight.AircraftType, stand.SizeLimit)
  /\ ~(Known(airline) /\ airline.RequiresContactStand /\ ~stand.IsContactStand)
  /\ passes_adjacency_rules(stand)

\* _get_connecting_flight_terminals
get_connecting_flight_terminals(st, flight) ==
  LET connects(other) ==
        IF flight.IsArrival
        THEN ~other.IsArrival /\ is_valid_connection_time(flight, other)
        ELSE other.IsArrival /\ is_valid_connection_time(other, flight)
      hits == SelectSeqIdx(flights,
                {i \in DOMAIN flights :
                   connects(flights[i]) /\ st.flight_terminals[flights[i].FlightID] # None}, 1)
  IN [k \in DOMAIN hits |-> st.flight_terminals[hits[k].FlightID]]

\* _calculate_terminal_proximity_score, times len(connecting_terminals): the
\* candidates of one call share the divisor, so this orders them as the score does
calculate_terminal_proximity_score(stand_terminal, connecting_terminals) ==
  IF connecting_terminals = <<>> THEN 0
  ELSE Cardinality({k \in DOMAIN connecting_terminals :
                      connecting_terminals[k] = stand_terminal}) * 100

\* one insertion of a sort by the score without reverse=True
insert_by_score_ascending(sorted, stand, terminals) ==
  LET sc(x) == calculate_terminal_proximity_score(x.Terminal, terminals)
      higher == {i \in DOMAIN sorted : sc(sorted[i]) > sc(stand)}
      pos == IF higher = {} THEN Len(sorted) + 1 ELSE Min(higher)
  IN SubSeq(sorted, 1, pos - 1) \o <<stand>> \o SubSeq(sorted, pos, Len(sorted))

\* one insertion of sort(key=score, reverse=True): before the first lower score
insert_by_score(sorted, stand, terminals) ==
  LET sc(x) == calculate_terminal_proximity_score(x.Terminal, terminals)
      lower == {i \in DOMAIN sorted : sc(sorted[i]) < sc(stand)}
      pos == IF lower = {} THEN Len(sorted) + 1 ELSE Min(lower)
  IN SubSeq(sorted, 1, pos - 1) \o <<stand>> \o SubSeq(sorted, pos, Len(sorted))

RECURSIVE sort_by_score(_, _, _, _)
sort_by_score(candidates, sorted, i, terminals) ==
  IF i > Len(candidates) THEN sorted
  ELSE sort_by_score(candidates, insert_by_score(sorted, candidates[i], terminals),
                     i + 1, terminals)

identify_candidate_stands(st, flight, airline) ==
  LET candidates == SelectSeqIdx(stands,
                      {i \in DOMAIN stands : passes_hard_filter(flight, airline, stands[i])}, 1)
      connecting_flight_terminals == get_connecting_flight_terminals(st, flight)
  IN IF connecting_flight_terminals # <<>>
     THEN sort_by_score(candidates, <<>>, 1, connecting_flight_terminals)
     ELSE candidates

\* _check_stand_availability, lines 653-665: the end of the query before the gap
query_end_timestamp(query_start_time, query_end_time) ==
  LET start_timestamp == datetime_to_timestamp(query_start_time)
      end_timestamp == datetime_to_timestamp(query_end_time)
  IN IF end_timestamp <= start_timestamp
     THEN IF ~Year1900(query_start_time) \/ ~Year1900(query_end_time)
          THEN start_timestamp
               + calculate_time_difference_minutes(query_start_time, query_end_time)
          ELSE start_timestamp + MinutesPerDay
     ELSE end_timestamp

\* _check_stand_availability probing the bare interval, without the gap
check_stand_availability_no_gap(st, stand_name, query_start_time, query_end_time) ==
  LET start_timestamp == datetime_to_timestamp(query_start_time)
      end_timestamp == query_end_timestamp(query_start_time, query_end_time)
  IN IF stand_name \in DOMAIN st.stand_occupancy_log
     THEN overlap(st.stand_occupancy_log[stand_name], start_timestamp, end_timestamp) = {}
     ELSE TRUE

check_stand_availability(st, stand_name, query_start_time, query_end_time) ==
  LET start_timestamp == datetime_to_timestamp(query_start_time)
      end_timestamp == query_end_timestamp(query_start_time, query_end_time)
      gap_seconds == settings.GapBetweenFlights * 60
      expanded_start == start_timestamp - gap_seconds
      expanded_end == end_timestamp + gap_seconds
  IN IF stand_name \in DOMAIN st.stand_occupancy_log
     THEN overlap(st.stand_occupancy_log[stand_name], expanded_start, expanded_end) = {}
     ELSE TRUE

\* _allocate_stand_to_flight, lines 693-705: the end of the interval that is inserted
allocation_end_timestamp(start_time, end_time) ==
  LET start_timestamp == datetime_to_timestamp(start_time)
      end_timestamp == datetime_to_timestamp(end_time)
  IN IF end_timestamp <= start_timestamp
     THEN IF ~Year1900(start_time) \/ ~Year1900(end_time)
          THEN start_timestamp + calculate_time_difference_minutes(start_time, end_time)
          ELSE start_timestamp + MinutesPerDay
     ELSE end_timestamp

AllocatedRecord(flight, stand, start_time, end_time) ==
  [flight |-> flight, stand |-> stand,
   start_time |-> FormatTime(start_time), end_time |-> FormatTime(end_time)]

UnallocatedRecord(flight, reason) == [flight |-> flight, reason |-> reason]

\* _allocate_stand_to_flight without the record of the departure of a pair
allocation_records_primary_only(stand, arrival_flight, departure_flight, start_time, end_time) ==
  <<AllocatedRecord(IF arrival_flight # None THEN arrival_flight ELSE departure_flight,
                    stand.StandName, start_time, end_time)>>

\* _allocate_stand_to_flight with the record of the departure of a pair first
allocation_records_departure_first(stand, arrival_flight, departure_flight, start_time, end_time) ==
  (IF arrival_flight # None /\ departure_flight # None
   THEN <<AllocatedRecord(departure_flight, stand.StandName,
                          FlightOf(arrival_flight).parsed_time,
                          FlightOf(departure_flight).parsed_time)>>
   ELSE <<>>)
  \o <<AllocatedRecord(IF arrival_flight # None THEN arrival_flight ELSE departure_flight,
                       stand.StandName, start_time, end_time)>>

\* the records _allocate_stand_to_flight appends to allocated_flights_report
allocation_records(stand, arrival_flight, departure_flight, start_time, end_time) ==
  <<AllocatedRecord(IF arrival_flight # None THEN arrival_flight ELSE departure_flight,
                    stand.StandName, start_time, end_time)>>
  \o (IF arrival_flight # None /\ departure_flight # None
      THEN <<AllocatedRecord(departure_flight, stand.StandName,
                             FlightOf(arrival_flight).parsed_time,
                             FlightOf(departure_flight).parsed_time)>>
      ELSE <<>>)

\* _allocate_stand_to_flight; IntervalTree.add raises ValueError for an interval
\* with end <= begin
allocate_stand_to_flight(st, stand, arrival_flight, departure_flight, start_time, end_time) ==
  LET start_timestamp == datetime_to_timestamp(start_time)
      end_timestamp == allocation_end_timestamp(start_time, end_time)
      ids == {arrival_flight, departure_flight} \ {None}
  IN IF end_timestamp <= start_timestamp
     THEN [st EXCEPT !.pc = "raised", !.path = Append(@, "raised")]
     ELSE [st EXCEPT
             !.stand_occupancy_log[stand.StandName] =
                @ \cup {Interval(start_timestamp, end_timestamp, "flight", <<>>,
                                 arrival_flight, departure_flight)},
             !.flight_allocations =
                [id \in DOMAIN @ |-> IF id \in ids THEN stand.StandName ELSE @[id]],
             !.flight_terminals =
                [id \in DOMAIN @ |-> IF id \in ids THEN stand.Terminal ELSE @[id]],
             !.allocated_flights_report =
                @ \o allocation_records(stand, arrival_flight, departure_flight,
                                        start_time, end_time)]

LogEntry(flight, reason) == [flight |-> flight, reason |-> reason]

\* the unallocated branch of the loop body of _run_greedy_allocation
\* the unallocated branch without the record of the departure of a pair
report_unallocated_primary_only(st, unit) ==
  LET reason == IF is_linked_pair(unit) THEN "No suitable stand available for linked pair"
                ELSE "No suitable stand available"
  IN [st EXCEPT
        !.unallocated_flights_report = Append(@, UnallocatedRecord(primary(unit), reason)),
        !.ai_log = Append(@, LogEntry(primary(unit), reason))]

report_unallocated(st, unit) ==
  IF is_linked_pair(unit)
  THEN [st EXCEPT
          !.unallocated_flights_report =
             @ \o <<UnallocatedRecord(unit.arrival, "No suitable stand available for linked pair"),
                    UnallocatedRecord(unit.departure, "No suitable stand available for linked pair")>>,
          !.ai_log = Append(@, LogEntry(unit.arrival, "No suitable stand available for linked pair"))]
  ELSE [st EXCEPT
          !.unallocated_flights_report =
             Append(@, UnallocatedRecord(primary(unit), "No suitable stand available")),
          !.ai_log = Append(@, LogEntry(primary(unit), "No suitable stand available"))]

\* the body of the loop of _run_greedy_allocation for one unit
process_unit(st, unit) ==
  LET flight == FlightOf(primary(unit))
      airline == get_airline(flight.AirlineCode)
      times == calculate_stand_occupancy_duration(unit)
      candidate_stands == identify_candidate_stands(st, flight, airline)
      available == {i \in DOMAIN candidate_stands :
                      check_stand_availability(st, candidate_stands[i].StandName,
                                               times[1], times[2])}
  IN IF available # {}
     THEN IF is_linked_pair(unit)
          THEN allocate_stand_to_flight(st, candidate_stands[Min(available)],
                                        unit.arrival, unit.departure, times[1], times[2])
          ELSE allocate_stand_to_flight(st, candidate_stands[Min(available)],
                                        primary(unit), None, times[1], times[2])
     ELSE report_unallocated(st, unit)

(***************************************************************************)
(* The CP allocator (cp_solver.py).  Flights and stands are numbered from  *)
(* 0 as in the code: flight i is flights[i + 1], stand s is stands[s + 1]. *)
(* An assignment gives every flight a stand (or UNALLOCATED_STAND), a      *)
(* start and an end; the Boolean variables of the model are quantified     *)
(* where they are created.                                                 *)
(***************************************************************************)
FlightIdx == 0..(Len(flights) - 1)
StandIdx == 0..(Len(stands) - 1)
flight_at(i) == flights[i + 1]
stand_at(s) == stands[s + 1]

latest_time ==
  IF flights = <<>> THEN DateTime(Day2000 + 366, 0, 0)
  ELSE Max({f.parsed_time : f \in Range(flights)})

\* calculate_time_horizon
time_horizon ==
  IF flights = <<>> THEN 365 * 24 * 60
  ELSE IF Year1900(earliest_time) /\ Year1900(latest_time) THEN TimeOnlyHorizon
  ELSE (latest_time - earliest_time) + HorizonBuffer

\* _datetime_to_minutes
datetime_to_minutes(dt) ==
  IF IsSentinelDate(dt) THEN MinuteOfDay(dt)
  ELSE (DayOf(dt) - DayOf(earliest_time)) * MinutesPerDay + MinuteOfDay(dt)

\* prepare_flights_data: flight_data["compatible_stands"]
compatible_stands(i) ==
  LET flight == flight_at(i)
      airline == get_airline(flight.AirlineCode)
  IN {s \in StandIdx :
        /\ ~(Known(airline) /\ airline.BaseTerminal # stand_at(s).Terminal)
        /\ is_aircraft_compatible(flight.AircraftType, stand_at(s).SizeLimit)
        /\ ~(Known(airline) /\ airline.RequiresContactStand /\ ~stand_at(s).IsContactStand)}

scheduled_minutes(i) == datetime_to_minutes(flight_at(i).parsed_time)

\* _get_maintenance_intervals: <<stand_idx, start_minutes, end_minutes>>
get_maintenance_intervals ==
  {LET start_minutes == datetime_to_minutes(m.parsed_start_time)
       end_minutes == datetime_to_minutes(m.parsed_end_time)
   IN <<Max({s \in StandIdx : stand_at(s).StandName = m.StandName}),
        start_minutes,
        IF Year1900(m.parsed_start_time) /\ Year1900(m.parsed_end_time)
           /\ end_minutes <= start_minutes
        THEN end_minutes + MinutesPerDay ELSE end_minutes>>
   : m \in {x \in Range(maint) : x.StandName \in StandNames}}

Allocated(a, i) == a[i].stand # UNALLOCATED_STAND

\* the domain of the stand variable without the exclusion of incompatible stands
stand_domain_unrestricted(a, i) ==
  a[i].stand \in UNALLOCATED_STAND..(Len(stands) - 1)

\* lines 369-385: the domain of the stand variable
stand_domain(a, i) ==
  /\ a[i].stand \in UNALLOCATED_STAND..(Len(stands) - 1)
  /\ \A value \in UNALLOCATED_STAND..(Len(stands) - 1) :
       value \notin (compatible_stands(i) \cup {UNALLOCATED_STAND}) => a[i].stand # value

\* lines 387-411: the start and end variables
time_domain(a, i) ==
  IF flight_at(i).IsArrival
  THEN /\ a[i].start = scheduled_minutes(i)
       /\ a[i].end \in scheduled_minutes(i)..(scheduled_minutes(i) + time_horizon)
  ELSE /\ a[i].end = scheduled_minutes(i)
       /\ a[i].start \in 0..scheduled_minutes(i)

\* lines 413-420: the turnaround of a flight without LinkID
turnaround_constraint(a, i) ==
  flight_at(i).LinkID = NoLink =>
    \E b \in BOOLEAN :
      /\ b => a[i].stand # UNALLOCATED_STAND
      /\ ~b => a[i].stand = UNALLOCATED_STAND
      /\ b => a[i].end - a[i].start >= turnaround_minutes(flight_at(i).AircraftType)

\* link_id_to_flights[link_id], as flight numbers in input order
linked_flights(link_id) ==
  SetToSortedSeq({i \in FlightIdx : flight_at(i).LinkID = link_id})

LinkIDs == {flights[k].LinkID : k \in DOMAIN flights} \ {NoLink}

\* lines 427-460: the constraints of one link group
linked_constraint(a, link_id) ==
  LET group == linked_flights(link_id)
      arrs == {k \in DOMAIN group : flight_at(group[k]).IsArrival}
      deps == {k \in DOMAIN group : ~flight_at(group[k]).IsArrival}
  IN (Len(group) = 2 /\ arrs # {} /\ deps # {}) =>
       LET arrival_idx == group[Min(arrs)]
           departure_idx == group[Min(deps)]
       IN /\ \E b_same_stand \in BOOLEAN :
               /\ b_same_stand => a[arrival_idx].stand # UNALLOCATED_STAND
               /\ b_same_stand => a[departure_idx].stand # UNALLOCATED_STAND
               /\ b_same_stand => a[arrival_idx].stand = a[departure_idx].stand
          /\ \E b_arrival_allocated, b_departure_allocated \in BOOLEAN :
               /\ b_arrival_allocated => a[arrival_idx].stand # UNALLOCATED_STAND
               /\ ~b_arrival_allocated => a[arrival_idx].stand = UNALLOCATED_STAND
               /\ b_departure_allocated => a[departure_idx].stand # UNALLOCATED_STAND
               /\ ~b_departure_allocated => a[departure_idx].stand = UNALLOCATED_STAND
               /\ ~b_arrival_allocated \/ b_departure_allocated
               /\ ~b_departure_allocated \/ b_arrival_allocated
          /\ \E b_linked_timing \in BOOLEAN :
               /\ b_linked_timing => a[arrival_idx].stand # UNALLOCATED_STAND
               /\ b_linked_timing => a[departure_idx].stand # UNALLOCATED_STAND
               /\ b_linked_timing => a[arrival_idx].end = a[departure_idx].start

\* NewOptionalIntervalVar(start, NewIntVar(lo, time_horizon), end, present)
optional_interval(start, end, lo, present) ==
  present => (end - start >= lo /\ end - start <= time_horizon)

\* AddNoOverlap on two optional intervals
no_overlap(start1, end1, present1, start2, end2, present2) ==
  (present1 /\ present2) => (end1 <= start2 \/ end2 <= start1)

\* the flight intervals of one stand without the extension by the gap
stand_no_overlap_without_gap(a, stand_idx) ==
  LET stand_flights == {i \in FlightIdx : stand_idx \in compatible_stands(i)}
      uses(i) == a[i].stand = stand_idx
  IN /\ \A i \in stand_flights : optional_interval(a[i].start, a[i].end, 1, uses(i))
     /\ \A i, j \in stand_flights :
          i # j => no_overlap(a[i].start, a[i].end, uses(i),
                              a[j].start, a[j].end, uses(j))

\* lines 470-556: the flight intervals of one stand
stand_no_overlap(a, stand_idx) ==
  LET stand_flights == {i \in FlightIdx : stand_idx \in compatible_stands(i)}
      gap_between_flights == settings.GapBetweenFlights
      uses(i) == a[i].stand = stand_idx
  IN /\ \A i \in stand_flights : optional_interval(a[i].start, a[i].end, 1, uses(i))
     /\ IF gap_between_flights > 0
        THEN /\ \A i \in stand_flights :
                  /\ a[i].end + gap_between_flights \in 0..time_horizon
                  /\ optional_interval(a[i].start, a[i].end + gap_between_flights, 1, uses(i))
             /\ \A i, j \in stand_flights :
                  i # j => no_overlap(a[i].start, a[i].end + gap_between_flights, uses(i),
                                      a[j].start, a[j].end + gap_between_flights, uses(j))
        ELSE \A i, j \in stand_flights :
               i # j => no_overlap(a[i].start, a[i].end, uses(i),
                                   a[j].start, a[j].end, uses(j))

\* lines 558-593: the maintenance intervals of one stand
stand_maintenance(a, stand_idx) ==
  LET stand_flights == {i \in FlightIdx : stand_idx \in compatible_stands(i)}
  IN \A m \in get_maintenance_intervals :
       m[1] = stand_idx =>
         /\ m[3] - m[2] >= 0
         /\ \A i \in stand_flights :
              /\ optional_interval(a[i].start, a[i].end, 1, a[i].stand = stand_idx)
              /\ no_overlap(m[2], m[3], TRUE, a[i].start, a[i].end, a[i].stand = stand_idx)

\* the constraints of the model built by solve()
cp_model(a) ==
  /\ \A i \in FlightIdx : stand_domain(a, i) /\ time_domain(a, i) /\ turnaround_constraint(a, i)
  /\ \A link_id \in LinkIDs : linked_constraint(a, link_id)
  /\ \A s \in StandIdx : stand_no_overlap(a, s) /\ stand_maintenance(a, s)

\* line 618: int(flight.criticality_score * 100) + 1
objective_weight(i) == score[flight_at(i).FlightID] * 100 + 1

RECURSIVE objective_from(_, _)
objective_from(a, i) ==
  IF i > Len(flights) - 1 THEN 0
  ELSE (IF Allocated(a, i) THEN objective_weight(i) ELSE 0) + objective_from(a, i + 1)

\* lines 602-622: the objective
objective(a) == objective_from(a, 0)

\* The values the search is given for the free time variable of a flight: the
\* turnaround, one minute, and the times of the flights of its link group.
time_candidates(i) ==
  LET flight == flight_at(i)
      m == scheduled_minutes(i)
      partners == {scheduled_minutes(j) : j \in {k \in FlightIdx :
                     k # i /\ flight.LinkID # NoLink /\ flight_at(k).LinkID = flight.LinkID}}
  IN IF flight.IsArrival
     THEN {m + turnaround_minutes(flight.AircraftType), m + 1}
          \cup partners \cup {t - 1 : t \in partners}
     ELSE {m - turnaround_minutes(flight.AircraftType), m - 1}
          \cup partners \cup {t + 1 : t \in partners}

assignment_values(i) ==
  LET flight == flight_at(i)
      m == scheduled_minutes(i)
  IN {[stand |-> s,
       start |-> IF flight.IsArrival THEN m ELSE t,
       end |-> IF flight.IsArrival THEN t ELSE m]
      : s \in StandIdx \cup {UNALLOCATED_STAND}, t \in time_candidates(i)}

RECURSIVE candidate_assignments(_, _)
\* the candidate assignments of flights 0..Len(flights)-1, extended one flight at a time
candidate_assignments(partial, i) ==
  IF i > Len(flights) - 1 THEN partial
  ELSE candidate_assignments(
         {[k \in 0..i |-> IF k = i THEN v ELSE a[k]] : a \in partial, v \in assignment_values(i)},
         i + 1)

\* the satisfying assignments among the candidates
cp_solutions == {a \in candidate_assignments({<<>>}, 0) : cp_model(a)}

\* lines 713-744: the time strings of an allocated flight; datetime() raises
\* ValueError for an hour beyond 23
decodable(flight, minutes) ==
  Year1900(flight.parsed_time) => (minutes \div 60 >= 0 /\ minutes \div 60 <= 23)

decode_time(flight, minutes) ==
  IF Year1900(flight.parsed_time)
  THEN [date |-> <<>>, hm |-> minutes]
  ELSE [date |-> <<DayOf(earliest_time) + minutes \div MinutesPerDay>>,
        hm |-> minutes % MinutesPerDay]

RECURSIVE process_solution(_, _, _)
\* lines 699-767: the loop over the solution from flight i on; r holds the two
\* reports, what was logged to ai_support and whether an error left the loop
process_solution(a, i, r) ==
  IF i > Len(flights) - 1 THEN r
  ELSE LET flight == flight_at(i)
       IN IF Allocated(a, i)
          THEN IF decodable(flight, a[i].start) /\ decodable(flight, a[i].end)
               THEN process_solution(a, i + 1,
                      [r EXCEPT !.allocated =
                         Append(@, [flight |-> flight.FlightID,
                                    stand |-> stand_at(a[i].stand).StandName,
                                    start_time |-> decode_time(flight, a[i].start),
                                    end_time |-> decode_time(flight, a[i].end)])])
               ELSE [r EXCEPT !.raised = TRUE]
          ELSE process_solution(a, i + 1,
                 [r EXCEPT
                    !.logged = Append(@, LogEntry(flight.FlightID,
                                                  "No suitable stand available (CP solver)")),
                    !.unallocated = Append(@, UnallocatedRecord(flight.FlightID,
                                                  "No suitable stand available (CP solver)"))])

\* the times of unallocated flights are not part of what solve() reports
reported(a) ==
  [i \in DOMAIN a |-> IF Allocated(a, i) THEN a[i]
                      ELSE [stand |-> UNALLOCATED_STAND, start |-> 0, end |-> 0]]

CpResult(status, a, r) ==
  [status |-> status, solution |-> a, raised |-> r.raised,
   allocated |-> IF r.raised THEN <<>> ELSE r.allocated,
   unallocated |-> IF r.raised THEN <<>> ELSE r.unallocated,
   logged |-> r.logged]

NoReports == [raised |-> FALSE, allocated |-> <<>>, unallocated |-> <<>>, logged |-> <<>>]

\* solve(): what it returns for the assignment the solver reports under a status
solve(status, a) == CpResult(status, reported(a), process_solution(a, 0, NoReports))

\* solve() without a solution: ([], [])
solve_nothing(status) == CpResult(status, <<>>, NoReports)

\* the construction of the solver or its import raises
solve_raises == CpResult("ERROR", <<>>, [NoReports EXCEPT !.raised = TRUE])

(***************************************************************************)
(* run_allocation and _run_greedy_allocation, step by step.                *)
(***************************************************************************)
\* the engine at its next position; reaching "done" is the return of the two reports,
\* kept in returned, one entry per call of run_allocation
goto(st, pc) ==
  [st EXCEPT !.pc = pc, !.path = Append(@, pc),
             !.returned = IF pc = "done"
                          THEN Append(@, <<st.allocated_flights_report,
                                           st.unallocated_flights_report>>)
                          ELSE @]

\* len(self.flights): the listed flights and the bulk flights
flight_count == Len(flights) + bulk

\* run_allocation, lines 134-147: is the CP solver to be tried
solver_selected ==
  LET use_solver == settings.use_solver
      auto_use_greedy == flight_count > SolverThreshold /\ ~settings.force_solver
  IN IF auto_use_greedy /\ use_solver THEN FALSE ELSE use_solver

\* run_allocation up to the choice of the allocator
dispatch(st) == IF solver_selected THEN goto(st, "cp_try") ELSE goto(st, "greedy")

\* _run_greedy_allocation, Step 1, given the order the sort left
prepared(st, order) == [goto(st, "allocating") EXCEPT !.flight_units = order, !.next_unit = 1]

\* _run_greedy_allocation, Step 2: one iteration, or the return after the last
loop_step(st) ==
  IF st.next_unit > Len(st.flight_units)
  THEN goto(st, "done")
  ELSE LET after == process_unit(st, st.flight_units[st.next_unit])
       IN IF after.pc = "raised" THEN after ELSE [after EXCEPT !.next_unit = @ + 1]

\* run_allocation storing the solver's reports before it tests them
after_cp_attempt_stores_first(st, result) ==
  LET stored == [st EXCEPT !.ai_log = @ \o result.logged,
                           !.allocated_flights_report = result.allocated,
                           !.unallocated_flights_report = result.unallocated]
  IN IF ~result.raised /\ result.allocated # <<>>
     THEN goto(stored, "done") ELSE goto(stored, "greedy")

\* run_allocation, lines 164-201: the engine after the attempt returned result
after_cp_attempt(st, result) ==
  LET logged == [st EXCEPT !.ai_log = @ \o result.logged]
  IN IF ~result.raised /\ result.allocated # <<>>
     THEN goto([logged EXCEPT !.allocated_flights_report = result.allocated,
                              !.unallocated_flights_report = result.unallocated], "done")
     ELSE goto(logged, "greedy")

NoCp == CpResult("NOT_RUN", <<>>, NoReports)

Scenario(flightList, airport, gap, useSolver, forceSolver, bulkFlights) ==
  LET loaded == load_connections(flightList, airport.conns, 1, {})
  IN /\ flights = loaded.flights
     /\ conns = loaded.connections
     /\ stands = airport.stands
     /\ maint = airport.maint
     /\ settings = Settings(gap, useSolver, forceSolver)
     /\ bulk = bulkFlights
     /\ score = [id \in {flightList[i].FlightID : i \in DOMAIN flightList} |-> 0]
     /\ eng = new_engine
     /\ eng2 = new_engine
     /\ cp = NoCp

\* the greedy scenarios: the solver is not requested
Init ==
  \/ \E fl \in FlightLists(TimeOnlyPool, MaxFlights), ap \in TimeOnlyAirports, g \in GapValues :
       Scenario(fl, ap, g, FALSE, FALSE, 0)
  \/ \E fl \in FlightLists(DateTimePool, MaxFlights), ap \in DateTimeAirports, g \in GapValues :
       Scenario(fl, ap, g, FALSE, FALSE, 0)
  \/ \E fl \in FlightLists(TimeOnlyPool, MaxFlights), ap \in ProximityAirports, g \in GapValues :
       Scenario(fl, ap, g, FALSE, FALSE, 0)

RunAllocation ==
  /\ eng.pc = "init"
  /\ eng' = dispatch(eng)
  /\ UNCHANGED <<flights, stands, maint, conns, settings, bulk, score, cp, eng2>>

PrepareOrder ==
  /\ eng.pc = "greedy"
  /\ LET units == create_flight_units
     IN /\ score' = scored(units, score)
        /\ \E order \in sort_results(units, score') : eng' = prepared(eng, order)
  /\ UNCHANGED <<flights, stands, maint, conns, settings, bulk, cp, eng2>>

AllocateUnit ==
  /\ eng.pc = "allocating"
  /\ eng' = loop_step(eng)
  /\ UNCHANGED <<flights, stands, maint, conns, settings, bulk, score, cp, eng2>>

Next == RunAllocation \/ PrepareOrder \/ AllocateUnit

Spec == Init /\ [][Next]_vars

(***************************************************************************)
(* The runs that request the solver.  bulk counts further flights of the   *)
(* schedule that no stand of the airport accepts (A380 of airline BB, no   *)
(* LinkID, scheduled within the listed flights' times): they add to        *)
(* len(self.flights), stay unallocated under both allocators and leave     *)
(* every stand untouched, so only their number is kept.                    *)
(***************************************************************************)
SolverRequests == {<<TRUE, FALSE>>, <<FALSE, TRUE>>}

\* schedules around SolverThreshold flights, one of them listed
LargeSchedules ==
  \E f \in TimeOnlyPool, ap \in TimeOnlyAirports, g \in GapValues,
     force \in BOOLEAN, n \in {SolverThreshold - 1, SolverThreshold} :
    Scenario(<<f>>, ap, g, TRUE, force, n)

InitSolver ==
  \/ \E fl \in FlightLists(TimeOnlyPool, MaxSolverFlights), ap \in TimeOnlyAirports,
        g \in GapValues, r \in SolverRequests :
       Scenario(fl, ap, g, r[1], r[2], 0)
  \/ \E fl \in FlightLists(DateTimePool, MaxSolverFlights), ap \in DateTimeAirports,
        g \in GapValues, r \in SolverRequests :
       Scenario(fl, ap, g, r[1], r[2], 0)
  \/ LargeSchedules

\* run_allocation, lines 164-191: the CP attempt.  The solver import or
\* construction raises, or Solve ends without a solution (the time limit, or
\* a model no assignment satisfies), or it reports a satisfying assignment:
\* OPTIMAL only for one of maximum objective, FEASIBLE for any (the time
\* limit stopped the search).
CpAttempt ==
  /\ eng.pc = "cp_try"
  /\ LET solutions == cp_solutions
         optimum == Max({objective(b) : b \in solutions})
     IN \/ cp' = solve_raises
        \/ cp' = solve_nothing("UNKNOWN")
        \/ solutions = {} /\ cp' = solve_nothing("INFEASIBLE")
        \/ \E a \in solutions :
             \/ cp' = solve("FEASIBLE", a)
             \/ objective(a) = optimum /\ cp' = solve("OPTIMAL", a)
  /\ eng' = after_cp_attempt(eng, cp')
  /\ UNCHANGED <<flights, stands, maint, conns, settings, bulk, score, eng2>>

NextSolver == RunAllocation \/ CpAttempt \/ PrepareOrder \/ AllocateUnit

SpecSolver == InitSolver /\ [][NextSolver]_vars

(***************************************************************************)
(* Two engines constructed on the same inputs; the second runs once the    *)
(* first has returned.                                                     *)
(***************************************************************************)
Returned(st) == st.pc \in {"done", "raised"}

SecondRunAllocation ==
  /\ Returned(eng) /\ eng2.pc = "init"
  /\ eng2' = dispatch(eng2)
  /\ UNCHANGED <<flights, stands, maint, conns, settings, bulk, score, cp, eng>>

SecondPrepareOrder ==
  /\ eng2.pc = "greedy"
  /\ LET units == create_flight_units
     IN /\ score' = scored(units, score)
        /\ \E order \in sort_results(units, score') : eng2' = prepared(eng2, order)
  /\ UNCHANGED <<flights, stands, maint, conns, settings, bulk, cp, eng>>

SecondAllocateUnit ==
  /\ eng2.pc = "allocating"
  /\ eng2' = loop_step(eng2)
  /\ UNCHANGED <<flights, stands, maint, conns, settings, bulk, score, cp, eng>>

NextPair ==
  \/ RunAllocation \/ PrepareOrder \/ AllocateUnit
  \/ SecondRunAllocation \/ SecondPrepareOrder \/ SecondAllocateUnit

SpecPair == Init /\ [][NextPair]_vars

(***************************************************************************)
(* What the reports say.                                                   *)
(***************************************************************************)
AllocatedIn(st, id) == \E r \in Range(st.allocated_flights_report) : r.flight = id
UnallocatedIn(st, id) == \E r \in Range(st.unallocated_flights_report) : r.flight = id
StandsOf(st, id) == {r.stand : r \in {x \in Range(st.allocated_flights_report) : x.flight = id}}
StandNamed(name) == CHOOSE s \in Range(stands) : s.StandName = name

\* the occupancy [start, end) of a unit, in minutes
Occupancy(unit) == calculate_stand_occupancy_duration(unit)

Disjoint(a, b, c, d) == b <= c \/ d <= a

UnitAllocatedOn(st, unit, name) == name \in StandsOf(st, primary(unit))

GreedyOnly == ~settings.use_solver

(***************************************************************************)
(* C1: after a greedy run, any two distinct units allocated to the same    *)
(* stand have occupancy intervals [F.start, F.end) and [G.start, G.end)    *)
(* such that [F.start - gap, F.end + gap) and [G.start, G.end) are         *)
(* disjoint, gap = GapBetweenFlights minutes.                              *)
(***************************************************************************)
C1_NoOverlapWithGap ==
  \A i, j \in DOMAIN eng.flight_units :
    \A name \in StandNames :
      (i # j /\ UnitAllocatedOn(eng, eng.flight_units[i], name)
             /\ UnitAllocatedOn(eng, eng.flight_units[j], name))
      => LET F == Occupancy(eng.flight_units[i])
             G == Occupancy(eng.flight_units[j])
         IN Disjoint(F[1] - settings.GapBetweenFlights, F[2] + settings.GapBetweenFlights,
                     G[1], G[2])

C1_Witness ==
  /\ eng.pc = "done"
  /\ settings.GapBetweenFlights > 0
  /\ \E i, j \in DOMAIN eng.flight_units :
       \E name \in StandNames :
         /\ i # j
         /\ UnitAllocatedOn(eng, eng.flight_units[i], name)
         /\ UnitAllocatedOn(eng, eng.flight_units[j], name)

(***************************************************************************)
(* C2: after a greedy run, no allocated flight's occupancy interval on a   *)
(* stand intersects a maintenance interval declared for that stand, a      *)
(* time-only entry with end <= start covering [start, end + 24h); for      *)
(* every gap value.                                                        *)
(***************************************************************************)
\* the interval a maintenance entry declares, in minutes
DeclaredMaintenance(entry) ==
  IF /\ IsSentinelDate(entry.parsed_start_time)
     /\ IsSentinelDate(entry.parsed_end_time)
     /\ entry.parsed_end_time <= entry.parsed_start_time
  THEN <<entry.parsed_start_time, entry.parsed_end_time + MinutesPerDay>>
  ELSE <<entry.parsed_start_time, entry.parsed_end_time>>

C2_MaintenanceSafety ==
  eng.pc = "done" =>
    \A i \in DOMAIN eng.flight_units :
      \A m \in Range(maint) :
        UnitAllocatedOn(eng, eng.flight_units[i], m.StandName)
        => LET F == Occupancy(eng.flight_units[i])
               M == DeclaredMaintenance(m)
           IN Disjoint(F[1], F[2], M[1], M[2])

(***************************************************************************)
(* C3: every allocated record (F, S) of the greedy allocator, the          *)
(* departure of a linked pair included, has F's aircraft category fitting  *)
(* S.SizeLimit, F's known airline based at S.Terminal, and S a contact     *)
(* stand if F's airline requires one.                                      *)
(***************************************************************************)
Compatible(flight, stand) ==
  LET airline == get_airline(flight.AirlineCode)
  IN /\ stand.SizeLimit \in compatibility(get_aircraft_category(flight.AircraftType))
     /\ Known(airline) => airline.BaseTerminal = stand.Terminal
     /\ (Known(airline) /\ airline.RequiresContactStand) => stand.IsContactStand

C3_Compatibility ==
  GreedyOnly =>
    \A r \in Range(eng.allocated_flights_report) :
      Compatible(FlightOf(r.flight), StandNamed(r.stand))

(***************************************************************************)
(* C4: after a greedy run, for every link group of one arrival a and one   *)
(* departure d, either a and d both have an allocated record naming the    *)
(* same stand, or both are in the unallocated report and neither has an    *)
(* allocated record.                                                       *)
(***************************************************************************)
\* the link groups with exactly one arrival and one departure, as <<a, d>>
LinkPairs ==
  {<<a.FlightID, d.FlightID>> : <<a, d>> \in
     {p \in Range(flights) \X Range(flights) :
        /\ p[1].LinkID # NoLink /\ p[1].LinkID = p[2].LinkID
        /\ p[1].IsArrival /\ ~p[2].IsArrival
        /\ Cardinality({f \in Range(flights) : f.LinkID = p[1].LinkID}) = 2}}

BothOnOneStand(st, a, d) ==
  /\ AllocatedIn(st, a) /\ AllocatedIn(st, d)
  /\ \E name \in StandNames : StandsOf(st, a) = {name} /\ StandsOf(st, d) = {name}

BothUnallocated(st, a, d) ==
  /\ UnallocatedIn(st, a) /\ UnallocatedIn(st, d)
  /\ ~AllocatedIn(st, a) /\ ~AllocatedIn(st, d)

C4_LinkedAtomicity ==
  (eng.pc = "done" /\ GreedyOnly) =>
    \A p \in LinkPairs : BothOnOneStand(eng, p[1], p[2]) \/ BothUnallocated(eng, p[1], p[2])

C4_Witness ==
  /\ eng.pc = "done" /\ GreedyOnly
  /\ Len(eng.unallocated_flights_report) > 0
  /\ \E p \in LinkPairs : BothOnOneStand(eng, p[1], p[2])

(***************************************************************************)
(* C10: the greedy allocator processes units by non-increasing criticality *)
(* score of the primary flight, then non-decreasing earliest_time, then    *)
(* unit-creation order; so of two single flights competing for the same    *)
(* only slot the one with the strictly higher score is allocated and the   *)
(* other is unallocated.                                                   *)
(***************************************************************************)
CreationIndex(unit) == CHOOSE k \in DOMAIN create_flight_units : create_flight_units[k] = unit

InProcessingOrder(u, v) ==
  \/ score[primary(u)] > score[primary(v)]
  \/ /\ score[primary(u)] = score[primary(v)]
     /\ \/ earliest_time_of(u) < earliest_time_of(v)
        \/ /\ earliest_time_of(u) = earliest_time_of(v)
           /\ CreationIndex(u) < CreationIndex(v)

\* two single flights that compete for the only slot: one stand, both pass its
\* filter, their occupancies intersect, nothing else is scheduled
CompeteForOnlySlot(f, g) ==
  /\ Len(flights) = 2 /\ Len(stands) = 1 /\ maint = <<>>
  /\ f.FlightID # g.FlightID
  /\ Range(eng.flight_units) = {single_unit(f), single_unit(g)}
  /\ Compatible(f, stands[1]) /\ Compatible(g, stands[1])
  /\ LET F == Occupancy(single_unit(f))
         G == Occupancy(single_unit(g))
     IN ~Disjoint(F[1], F[2], G[1], G[2])

C10_ProcessingOrder ==
  eng.pc \in {"allocating", "done"} =>
    /\ Range(eng.flight_units) = Range(create_flight_units)
    /\ \A i, j \in DOMAIN eng.flight_units :
         i < j => InProcessingOrder(eng.flight_units[i], eng.flight_units[j])
    /\ eng.pc = "done" =>
         \A f, g \in Range(flights) :
           (CompeteForOnlySlot(f, g) /\ score[f.FlightID] > score[g.FlightID])
           => (AllocatedIn(eng, f.FlightID) /\ UnallocatedIn(eng, g.FlightID)
               /\ ~AllocatedIn(eng, g.FlightID))

C10_Witness ==
  /\ eng.pc = "done"
  /\ \E f, g \in Range(flights) :
       /\ CompeteForOnlySlot(f, g) /\ score[f.FlightID] > score[g.FlightID]
       /\ flights[1] = g
       /\ AllocatedIn(eng, f.FlightID) /\ UnallocatedIn(eng, g.FlightID)
(***************************************************************************)
(* The run of a fresh engine with use_solver = false on the same inputs.   *)
(***************************************************************************)
RECURSIVE greedy_run(_)
greedy_run(st) == IF Returned(st) THEN st ELSE greedy_run(loop_step(st))

greedy_references ==
  LET units == create_flight_units
  IN {greedy_run(prepared(goto(new_engine, "greedy"), order))
      : order \in sort_results(units, scored(units, score))}

Reports(st) == <<st.allocated_flights_report, st.unallocated_flights_report>>

CpAttempted == "cp_try" \in Range(eng.path)
GreedyRan == "greedy" \in Range(eng.path)
CpFoundSolution == cp.status \in {"FEASIBLE", "OPTIMAL"}

(***************************************************************************)
(* C5: in every assignment that satisfies the CP model, for each link      *)
(* group with arrival a and departure d, a is allocated iff d is, and if   *)
(* both are allocated they are on the same stand and the arrival's end is  *)
(* the departure's start, for every gap value.                             *)
(***************************************************************************)
LinkGroups ==
  {p \in FlightIdx \X FlightIdx :
     /\ flight_at(p[1]).LinkID # NoLink /\ flight_at(p[1]).LinkID = flight_at(p[2]).LinkID
     /\ flight_at(p[1]).IsArrival /\ ~flight_at(p[2]).IsArrival}

C5_LinkedPairsInCpModel ==
  CpFoundSolution =>
    \A p \in LinkGroups :
      LET a == cp.solution[p[1]]
          d == cp.solution[p[2]]
      IN /\ (a.stand # UNALLOCATED_STAND) <=> (d.stand # UNALLOCATED_STAND)
         /\ (a.stand # UNALLOCATED_STAND /\ d.stand # UNALLOCATED_STAND)
            => (a.stand = d.stand /\ a.end = d.start)

(***************************************************************************)
(* C6: run_allocation goes init -> cp_try | greedy -> done.  The CP        *)
(* allocator is attempted iff use_solver and (the number of flights is at  *)
(* most 25000 or force_solver); the greedy allocator runs iff CP was not   *)
(* attempted, or returned an empty allocated report, or raised; every run  *)
(* reaches done.                                                           *)
(***************************************************************************)
RunAllocationPaths ==
  { <<"init">>, <<"init", "cp_try">>, <<"init", "cp_try", "done">>,
    <<"init", "cp_try", "greedy">>, <<"init", "cp_try", "greedy", "allocating">>,
    <<"init", "cp_try", "greedy", "allocating", "done">>,
    <<"init", "greedy">>, <<"init", "greedy", "allocating">>,
    <<"init", "greedy", "allocating", "done">> }

RunAllocationTransitions ==
  /\ eng.pc # "raised" => eng.path \in RunAllocationPaths
  /\ eng.pc # "init" =>
       (CpAttempted <=> (settings.use_solver
                         /\ (flight_count <= SolverThreshold \/ settings.force_solver)))
  /\ eng.pc \notin {"init", "cp_try"} =>
       (GreedyRan <=> (~CpAttempted \/ cp.allocated = <<>> \/ cp.raised))

\* run_allocation has returned its reports, or one of its steps is still to run
ReachesDone == eng.pc = "done" \/ eng.pc \in {"init", "cp_try", "greedy", "allocating"}

C6_RunAllocation == RunAllocationTransitions /\ ReachesDone

(***************************************************************************)
(* C7: when the CP attempt raises or yields no allocated flight, the run   *)
(* returns exactly the reports of a run with use_solver = false on the     *)
(* same inputs, and no record of the CP attempt is in them.                *)
(***************************************************************************)
FellBack == CpAttempted /\ (cp.raised \/ cp.allocated = <<>>) /\ eng.pc # "cp_try"

FromCpAttempt(r) == r.reason = "No suitable stand available (CP solver)"

C7_FallbackEqualsGreedy ==
  (Returned(eng) /\ FellBack) =>
    /\ \E ref \in greedy_references : ref.pc = eng.pc /\ Reports(ref) = Reports(eng)
    /\ \A r \in Range(eng.unallocated_flights_report) : ~FromCpAttempt(r)

C7_Witness ==
  /\ eng.pc = "done" /\ FellBack
  /\ cp.unallocated # <<>>
  /\ eng.allocated_flights_report # <<>>

(***************************************************************************)
(* C8: the maximum objective of the CP model is at least the same weighted *)
(* sum over the flights the greedy allocator allocates on the same input.  *)
(* Checked in the state the CP attempt leaves, where the weights are those *)
(* the objective was built with.                                           *)
(***************************************************************************)
JustAttempted == Len(eng.path) = 3 /\ eng.path[2] = "cp_try"

RECURSIVE greedy_objective_from(_, _)
greedy_objective_from(ref, i) ==
  IF i > Len(flights) - 1 THEN 0
  ELSE (IF AllocatedIn(ref, flight_at(i).FlightID) THEN objective_weight(i) ELSE 0)
       + greedy_objective_from(ref, i + 1)

C8_CpOptimumAtLeastGreedy ==
  (JustAttempted /\ cp.status = "OPTIMAL") =>
    \A ref \in greedy_references :
      ref.pc = "done" => objective(cp.solution) >= greedy_objective_from(ref, 0)

RecordsOf(st, id) ==
  Cardinality({k \in DOMAIN st.allocated_flights_report :
                 st.allocated_flights_report[k].flight = id})
  + Cardinality({k \in DOMAIN st.unallocated_flights_report :
                   st.unallocated_flights_report[k].flight = id})

C11_FlightConservation ==
  eng.pc = "done" => \A f \in Range(flights) : RecordsOf(eng, f.FlightID) = 1
(***************************************************************************)
(* C12: in the greedy allocator a single flight for which no stand passes  *)
(* the hard filter, or every candidate stand has an overlap, is put in the *)
(* unallocated report with reason "No suitable stand available"; of a      *)
(* linked pair both halves are put there with reason "No suitable stand    *)
(* available for linked pair"; the run then continues with the next unit   *)
(* and no error is raised.                                                 *)
(***************************************************************************)
CurrentUnit == eng.flight_units[eng.next_unit]

\* no stand passes the filter of the unit's primary flight and is free for the unit
NoStandFor(st, unit) ==
  LET times == calculate_stand_occupancy_duration(unit)
  IN \A stand \in Range(stands) :
       \/ ~Compatible(FlightOf(primary(unit)), stand)
       \/ ~check_stand_availability(st, stand.StandName, times[1], times[2])

UnallocatedRecordsOf(unit) ==
  IF is_linked_pair(unit)
  THEN <<[flight |-> unit.arrival, reason |-> "No suitable stand available for linked pair"],
         [flight |-> unit.departure, reason |-> "No suitable stand available for linked pair"]>>
  ELSE <<[flight |-> primary(unit), reason |-> "No suitable stand available"]>>

C12_UnallocatedIsLocal ==
  [][(/\ eng.pc = "allocating"
      /\ eng.next_unit <= Len(eng.flight_units)
      /\ NoStandFor(eng, CurrentUnit))
     => /\ eng'.pc = "allocating"
        /\ eng'.next_unit = eng.next_unit + 1
        /\ eng'.allocated_flights_report = eng.allocated_flights_report
        /\ eng'.unallocated_flights_report =
             eng.unallocated_flights_report \o UnallocatedRecordsOf(CurrentUnit)]_vars

\* a linked pair was reported unallocated and a later unit was allocated
C12_Witness ==
  /\ eng.pc = "done" /\ GreedyOnly
  /\ \E i, j \in DOMAIN eng.flight_units :
       /\ i < j
       /\ is_linked_pair(eng.flight_units[i])
       /\ BothUnallocated(eng, eng.flight_units[i].arrival, eng.flight_units[i].departure)
       /\ AllocatedIn(eng, primary(eng.flight_units[j]))
(***************************************************************************)
(* C13: for time-only input every start_time and end_time of the greedy    *)
(* allocated report has the HH:MM shape with no date part, also when the   *)
(* occupancy crosses midnight.                                             *)
(***************************************************************************)
TimeOnlyInput == \A f \in Range(flights) : IsSentinelDate(f.parsed_time)

C13_TimeOnlyFormat ==
  (GreedyOnly /\ TimeOnlyInput) =>
    \A r \in Range(eng.allocated_flights_report) :
      r.start_time.date = <<>> /\ r.end_time.date = <<>>
(***************************************************************************)
(* C14: every interval the greedy allocator inserts into a stand's         *)
(* occupancy index for a unit has end > start, for every unit with arrival *)
(* time <= departure time (a date-time pair with equal times included);    *)
(* it never attempts to insert an empty or reversed interval.              *)
(***************************************************************************)
ArrivalNotAfterDeparture(unit) ==
  is_linked_pair(unit) =>
    FlightOf(unit.arrival).parsed_time <= FlightOf(unit.departure).parsed_time

C14_IntervalsNonEmpty ==
  /\ \A name \in StandNames :
       \A iv \in eng.stand_occupancy_log[name] : iv.type = "flight" => iv.end > iv.begin
  /\ eng.pc = "raised" => ~ArrivalNotAfterDeparture(CurrentUnit)
(***************************************************************************)
(* C15: the greedy allocated report lists records in unit-processing       *)
(* order, the arrival's record of a linked pair immediately before the     *)
(* departure's; the CP allocator lists the records of each of its two      *)
(* reports in flight-input order.                                          *)
(***************************************************************************)
UnitIndexOf(id) ==
  CHOOSE k \in DOMAIN eng.flight_units : id \in UnitFlights(eng.flight_units[k])

InputIndexOf(id) == CHOOSE k \in DOMAIN flights : flights[k].FlightID = id

GreedyReportOrder ==
  LET report == eng.allocated_flights_report
  IN (GreedyRan /\ eng.pc \in {"allocating", "done"}) =>
       /\ \A i, j \in DOMAIN report :
            i < j => UnitIndexOf(report[i].flight) <= UnitIndexOf(report[j].flight)
       /\ \A u \in Range(eng.flight_units) :
            (is_linked_pair(u) /\ AllocatedIn(eng, u.arrival)) =>
              \E k \in DOMAIN report :
                /\ k + 1 \in DOMAIN report
                /\ report[k].flight = u.arrival
                /\ report[k + 1].flight = u.departure

InInputOrder(report) ==
  \A i, j \in DOMAIN report :
    i < j => InputIndexOf(report[i].flight) < InputIndexOf(report[j].flight)

CpReportOrder ==
  CpFoundSolution => (InInputOrder(cp.allocated) /\ InInputOrder(cp.unallocated))

C15_ReportOrder == GreedyReportOrder /\ CpReportOrder

\* the solver reported two flights and the greedy allocator then allocated a pair
C15_Witness ==
  /\ eng.pc = "done" /\ GreedyRan
  /\ Len(cp.unallocated) = 2
  /\ \E u \in Range(eng.flight_units) : is_linked_pair(u) /\ AllocatedIn(eng, u.arrival)
(***************************************************************************)
(* Schedules in which two flights share a FlightID.  The constructor       *)
(* (stand_allocation_engine.py 17-82) and the loader check nothing, so the *)
(* engine is constructed on them as on any other schedule.                 *)
(***************************************************************************)
RepeatedFlightLists(pool, n) ==
  {fl \in UNION {[1..k -> pool] : k \in 2..n} :
     \E i, j \in DOMAIN fl : i < j /\ fl[i].FlightID = fl[j].FlightID}

InitRepeated ==
  \/ \E fl \in RepeatedFlightLists(TimeOnlyPool, MaxFlights), ap \in TimeOnlyAirports,
        g \in GapValues :
       Scenario(fl, ap, g, FALSE, FALSE, 0)
  \/ \E fl \in RepeatedFlightLists(DateTimePool, MaxFlights), ap \in DateTimeAirports,
        g \in GapValues :
       Scenario(fl, ap, g, FALSE, FALSE, 0)

SpecRepeated == InitRepeated /\ [][Next]_vars

(***************************************************************************)
(* C16: invalid input is rejected at construction: with two flights that   *)
(* share a FlightID the constructor surfaces an error, so run_allocation   *)
(* never executes on such input.                                           *)
(***************************************************************************)
SharedFlightID ==
  \E i, j \in DOMAIN flights : i < j /\ flights[i].FlightID = flights[j].FlightID

C16_InvalidInputRejected == SharedFlightID => eng.pc = "init"
(***************************************************************************)
(* run_allocation called again on the same engine: the reports, the        *)
(* occupancy index and the allocation maps are those the constructor made  *)
(* and the earlier calls filled (stand_allocation_engine.py 71-79).        *)
(***************************************************************************)
RunAgain ==
  /\ eng.pc = "done" /\ Len(eng.returned) < MaxRuns
  /\ eng' = dispatch(eng)
  /\ UNCHANGED <<flights, stands, maint, conns, settings, bulk, score, cp, eng2>>

NextRerun == RunAllocation \/ PrepareOrder \/ AllocateUnit \/ RunAgain

SpecRerun == Init /\ [][NextRerun]_vars

(***************************************************************************)
(* C17: no state carries over between runs: a second call of               *)
(* run_allocation on the same engine (greedy path) returns reports equal   *)
(* to those the first call returned.                                       *)
(***************************************************************************)
C17_NoStateAcrossRuns ==
  \A k \in DOMAIN eng.returned : eng.returned[k] = eng.returned[1]
(***************************************************************************)
(* C18: the greedy allocator assigns a unit with occupancy [start, end) to *)
(* the first stand in candidate order whose occupancy index holds no       *)
(* interval intersecting [start - gap, end + gap), the gap counted in      *)
(* minutes like the timestamps; a candidate whose nearest interval is at   *)
(* least gap minutes away is not skipped.                                  *)
(***************************************************************************)
FreeWithGapInMinutes(st, stand_name, start_time, end_time) ==
  LET start_timestamp == datetime_to_timestamp(start_time)
      end_timestamp == query_end_timestamp(start_time, end_time)
      gap == settings.GapBetweenFlights
  IN overlap(st.stand_occupancy_log[stand_name], start_timestamp - gap, end_timestamp + gap) = {}

\* the stand the rule picks for the unit, in a set: empty if no candidate is free
FirstFreeCandidate(st, unit) ==
  LET flight == FlightOf(primary(unit))
      times == calculate_stand_occupancy_duration(unit)
      candidate_stands == identify_candidate_stands(st, flight, get_airline(flight.AirlineCode))
      free == {i \in DOMAIN candidate_stands :
                 FreeWithGapInMinutes(st, candidate_stands[i].StandName, times[1], times[2])}
  IN IF free = {} THEN {} ELSE {candidate_stands[Min(free)].StandName}

C18_FirstFreeCandidate ==
  [][(/\ eng.pc = "allocating"
      /\ eng.next_unit <= Len(eng.flight_units)
      /\ eng'.pc # "raised")
     => LET picked == FirstFreeCandidate(eng, CurrentUnit)
        IN IF picked = {}
           THEN eng'.unallocated_flights_report =
                  eng.unallocated_flights_report \o UnallocatedRecordsOf(CurrentUnit)
           ELSE {eng'.flight_allocations[primary(CurrentUnit)]} = picked]_vars
(***************************************************************************)
(* C19: in the greedy allocator, for any gap >= 0, a flight whose          *)
(* occupancy starts exactly at the end of a maintenance interval on stand  *)
(* S, or ends exactly at its start, with no other interval on S nearby, is *)
(* judged available on S: the gap is required between flights only.       *)
(***************************************************************************)
TouchesUnit(iv, unit) ==
  LET times == calculate_stand_occupancy_duration(unit)
  IN /\ iv.type = "maintenance"
     /\ \/ iv.end = datetime_to_timestamp(times[1])
        \/ iv.begin = query_end_timestamp(times[1], times[2])

\* S holds maintenance touching the unit's occupancy and nothing else
OnlyTouchingMaintenance(st, name, unit) ==
  /\ st.stand_occupancy_log[name] # {}
  /\ \A iv \in st.stand_occupancy_log[name] : TouchesUnit(iv, unit)

C19_MaintenanceBoundary ==
  (eng.pc = "allocating" /\ eng.next_unit <= Len(eng.flight_units)) =>
    \A name \in StandNames :
      OnlyTouchingMaintenance(eng, name, CurrentUnit) =>
        LET times == calculate_stand_occupancy_duration(CurrentUnit)
        IN check_stand_availability(eng, name, times[1], times[2])
(***************************************************************************)
(* C20: in every assignment satisfying the CP model, any two distinct      *)
(* flights i, j on the same stand have end_i + gap <= start_j or           *)
(* end_j + gap <= start_i, and no allocated flight's [start, end)          *)
(* intersects a maintenance interval of its stand; a flight may end        *)
(* exactly where a maintenance interval starts.                            *)
(***************************************************************************)
\* the stand's maintenance intervals as _get_maintenance_intervals gives them
MaintenanceOfStand(stand_idx) == {m \in get_maintenance_intervals : m[1] = stand_idx}

Intersects(start1, end1, start2, end2) == start1 < end2 /\ start2 < end1

GapBetweenAssigned(a) ==
  \A i, j \in DOMAIN a :
    (i # j /\ Allocated(a, i) /\ a[i].stand = a[j].stand) =>
      \/ a[i].end + settings.GapBetweenFlights <= a[j].start
      \/ a[j].end + settings.GapBetweenFlights <= a[i].start

ClearOfMaintenance(a) ==
  \A i \in DOMAIN a :
    Allocated(a, i) =>
      \A m \in MaintenanceOfStand(a[i].stand) :
        ~Intersects(a[i].start, a[i].end, m[2], m[3])

C20_CpGapAndMaintenance ==
  (JustAttempted /\ CpFoundSolution) =>
    GapBetweenAssigned(cp.solution) /\ ClearOfMaintenance(cp.solution)

\* with a positive gap, two flights share a stand and one of them ends
\* exactly where a maintenance interval of that stand starts
C20_Witness ==
  /\ JustAttempted /\ CpFoundSolution
  /\ settings.GapBetweenFlights > 0
  /\ \E i, j \in DOMAIN cp.solution :
       /\ i # j
       /\ Allocated(cp.solution, i)
       /\ cp.solution[i].stand = cp.solution[j].stand
       /\ \E m \in MaintenanceOfStand(cp.solution[i].stand) : cp.solution[i].end = m[2]
(***************************************************************************)
(* C21: for a time-only linked pair whose departure time is not after its  *)
(* arrival time, the interval the greedy allocator probes and the one it   *)
(* inserts into the stand's index are [arrival minutes, departure minutes  *)
(* + 24*60), in minutes since midnight.                                    *)
(***************************************************************************)
OvernightPair(arrival, departure) ==
  /\ arrival # None /\ departure # None
  /\ IsSentinelDate(FlightOf(arrival).parsed_time)
  /\ IsSentinelDate(FlightOf(departure).parsed_time)
  /\ FlightOf(departure).parsed_time <= FlightOf(arrival).parsed_time

OvernightBegin(arrival) == MinuteOfDay(FlightOf(arrival).parsed_time)
OvernightEnd(departure) == MinuteOfDay(FlightOf(departure).parsed_time) + MinutesPerDay

\* the probe of the unit under the head of the loop
ProbedAsOvernight ==
  (eng.pc = "allocating" /\ eng.next_unit <= Len(eng.flight_units)
   /\ OvernightPair(CurrentUnit.arrival, CurrentUnit.departure)) =>
    LET times == calculate_stand_occupancy_duration(CurrentUnit)
    IN /\ datetime_to_timestamp(times[1]) = OvernightBegin(CurrentUnit.arrival)
       /\ query_end_timestamp(times[1], times[2]) = OvernightEnd(CurrentUnit.departure)

\* the intervals in the index
InsertedAsOvernight ==
  \A name \in StandNames :
    \A iv \in eng.stand_occupancy_log[name] :
      (iv.type = "flight" /\ OvernightPair(iv.arrival, iv.departure)) =>
        /\ iv.begin = OvernightBegin(iv.arrival)
        /\ iv.end = OvernightEnd(iv.departure)

C21_OvernightPairInterval == ProbedAsOvernight /\ InsertedAsOvernight
(***************************************************************************)
(* C22: when run_allocation dispatches to the CP allocator, the objective  *)
(* weight of every flight is 100 times its criticality score plus one, the *)
(* score being the one computed from the flight, its airline and the       *)
(* settings weights; so a flight with a higher score has a weight at least *)
(* as large.                                                               *)
(***************************************************************************)
\* the criticality score computed from one flight
CriticalityOf(flight) == calculate_criticality_score(single_unit(flight))

C22_ObjectiveWeights ==
  eng.pc = "cp_try" =>
    \A i \in FlightIdx :
      objective_weight(i) = CriticalityOf(flight_at(i)) * 100 + 1
(***************************************************************************)
(* The objective weight as a function of a flight, its airline and the     *)
(* weight map: _calculate_criticality_score sets the flight's score, then  *)
(* solve() derives the weight from it.                                     *)
(***************************************************************************)
\* Flight.base_priority_score: int
BasePriorityScores == {-2, -1, 0, 1}

\* Settings.prioritization_weights: the default map, and one with keys missing
WeightMaps == {default_weights, [base_score |-> 3]}

InitWeights ==
  \E f \in TimeOnlyPool \cup DateTimePool, b \in BasePriorityScores, w \in WeightMaps :
    /\ flights = <<[f EXCEPT !.base_priority_score = b]>>
    /\ conns = {}
    /\ stands = <<A1>>
    /\ maint = <<>>
    /\ settings = [Settings(0, TRUE, FALSE) EXCEPT !.prioritization_weights = w]
    /\ bulk = 0
    /\ score = [id \in {f.FlightID} |-> 0]
    /\ eng = new_engine
    /\ eng2 = new_engine
    /\ cp = NoCp

\* _calculate_criticality_score for every unit: flight.criticality_score = score
CalculateCriticalityScore ==
  /\ eng.pc = "init"
  /\ score' = scored(create_flight_units, score)
  /\ eng' = goto(eng, "scored")
  /\ UNCHANGED <<flights, stands, maint, conns, settings, bulk, cp, eng2>>

\* solve(), lines 608-619: the weight of every flight's objective term
ObjectiveWeights ==
  /\ eng.pc = "scored"
  /\ cp' = [status |-> "WEIGHTS", weights |-> [i \in FlightIdx |-> objective_weight(i)]]
  /\ eng' = goto(eng, "weighted")
  /\ UNCHANGED <<flights, stands, maint, conns, settings, bulk, score, eng2>>

NextWeights == CalculateCriticalityScore \/ ObjectiveWeights

SpecWeights == InitWeights /\ [][NextWeights]_vars

(***************************************************************************)
(* C23: the objective weight int(criticality_score * 100) + 1 of a flight  *)
(* is strictly positive for every flight, every weight map and every       *)
(* base_priority_score, negative ones included.                            *)
(***************************************************************************)
C23_PositiveWeights ==
  eng.pc = "weighted" => \A i \in DOMAIN cp.weights : cp.weights[i] > 0
(***************************************************************************)
(* C24: in every assignment satisfying the CP model, every allocated       *)
(* flight that is not half of a complete linked pair (it has no LinkID, or *)
(* its link group has one side only) occupies its stand for at least the   *)
(* turnaround of its aircraft category.                                    *)
(***************************************************************************)
\* the flight's link group has an arrival and a departure
InCompletePair(flight) ==
  /\ flight.LinkID # NoLink
  /\ \E f, g \in Range(flights) :
       f.LinkID = flight.LinkID /\ g.LinkID = flight.LinkID /\ f.IsArrival /\ ~g.IsArrival

C24_TurnaroundOfSingles ==
  (JustAttempted /\ CpFoundSolution) =>
    \A i \in DOMAIN cp.solution :
      (Allocated(cp.solution, i) /\ ~InCompletePair(flight_at(i))) =>
        cp.solution[i].end - cp.solution[i].start
          >= turnaround_minutes(flight_at(i).AircraftType)
(***************************************************************************)
(* C25: once the processing order is built, every input flight, the        *)
(* departure of a linked pair included, carries the criticality score      *)
(* computed from it, its airline and the weight map, and the allocation    *)
(* loop leaves the scores unchanged.                                       *)
(***************************************************************************)
ScoresComputed == \A f \in Range(flights) : score[f.FlightID] = CriticalityOf(f)

C25_ScoresAfterOrdering ==
  [][/\ eng'.pc \in {"allocating", "done"} => ScoresComputed'
     /\ eng.pc = "allocating" => score' = score]_vars
(***************************************************************************)
(* C26: _identify_candidate_stands returns exactly the stands that pass    *)
(* the hard filter, in stand-input order when the flight has no allocated  *)
(* valid connection, otherwise by proximity score descending with stands   *)
(* of equal score kept in stand-input order.                               *)
(***************************************************************************)
PassesFilter(flight, stand) ==
  LET airline == get_airline(flight.AirlineCode)
  IN /\ Known(airline) => stand.Terminal = airline.BaseTerminal
     /\ stand.SizeLimit \in compatibility(get_aircraft_category(flight.AircraftType))
     /\ (Known(airline) /\ airline.RequiresContactStand) => stand.IsContactStand

\* the position of a stand in the input
StandPosition(stand) == CHOOSE i \in DOMAIN stands : stands[i] = stand

\* the number of connecting terminals equal to the stand's: the proximity
\* score is 100 times this over the number of connecting terminals
Matching(stand, terminals) ==
  Cardinality({k \in DOMAIN terminals : terminals[k] = stand.Terminal})

CandidatesAsSpecified(st, flight) ==
  LET result == identify_candidate_stands(st, flight, get_airline(flight.AirlineCode))
      terminals == get_connecting_flight_terminals(st, flight)
  IN /\ Range(result) = {stands[i] : i \in {j \in DOMAIN stands : PassesFilter(flight, stands[j])}}
     /\ \A i, j \in DOMAIN result : i # j => result[i] # result[j]
     /\ \A i, j \in DOMAIN result :
          i < j =>
            IF terminals = <<>>
            THEN StandPosition(result[i]) < StandPosition(result[j])
            ELSE \/ Matching(result[i], terminals) > Matching(result[j], terminals)
                 \/ /\ Matching(result[i], terminals) = Matching(result[j], terminals)
                    /\ StandPosition(result[i]) < StandPosition(result[j])

C26_CandidateStands ==
  (eng.pc = "allocating" /\ eng.next_unit <= Len(eng.flight_units)) =>
    CandidatesAsSpecified(eng, FlightOf(primary(CurrentUnit)))

\* a flight with an allocated connection: the score moves two stands of equal
\* score before an earlier stand and keeps them in input order
C26_Witness ==
  /\ eng.pc = "allocating" /\ eng.next_unit <= Len(eng.flight_units)
  /\ LET flight == FlightOf(primary(CurrentUnit))
         result == identify_candidate_stands(eng, flight, get_airline(flight.AirlineCode))
     IN /\ get_connecting_flight_terminals(eng, flight) # <<>>
        /\ Len(result) >= 3
        /\ StandPosition(result[1]) < StandPosition(result[2])
        /\ StandPosition(result[3]) < StandPosition(result[1])
        /\ result[1].Terminal = result[2].Terminal
(***************************************************************************)
(* C27: in every assignment satisfying the CP model, an allocated flight's *)
(* stand is in the flight's compatible set, that set is the set of stands  *)
(* passing the greedy allocator's hard filter for the same flight, and a   *)
(* flight with an empty compatible set is unallocated.                     *)
(***************************************************************************)
\* the stands passing the hard filter of _identify_candidate_stands
GreedyFilterSet(flight) ==
  {s \in StandIdx : passes_hard_filter(flight, get_airline(flight.AirlineCode), stand_at(s))}

C27_CompatibleStands ==
  (JustAttempted /\ CpFoundSolution) =>
    \A i \in DOMAIN cp.solution :
      /\ compatible_stands(i) = GreedyFilterSet(flight_at(i))
      /\ Allocated(cp.solution, i) => cp.solution[i].stand \in GreedyFilterSet(flight_at(i))
      /\ GreedyFilterSet(flight_at(i)) = {} => ~Allocated(cp.solution, i)

\* one flight is allocated where only some stands are compatible, another
\* has no compatible stand
C27_Witness ==
  /\ JustAttempted /\ CpFoundSolution
  /\ \E i, j \in DOMAIN cp.solution :
       /\ Allocated(cp.solution, i)
       /\ GreedyFilterSet(flight_at(i)) # StandIdx
       /\ GreedyFilterSet(flight_at(j)) = {}
(***************************************************************************)
(* The connection tracker on its own: add_connection and                   *)
(* is_valid_connection_time called with any two flights of the list.  The  *)
(* last call and what it returned are kept in cp.                          *)
(***************************************************************************)
TransferWindows == {TransferWindow(30, 180, FALSE), TransferWindow(30, 900, TRUE)}

InitTracker ==
  \E fl \in FlightLists(TimeOnlyPool, MaxTrackedFlights)
              \cup FlightLists(DateTimePool, MaxTrackedFlights) :
    /\ flights = fl
    /\ conns = {}
    /\ stands = <<A1>>
    /\ maint = <<>>
    /\ settings = Settings(0, FALSE, FALSE)
    /\ bulk = 0
    /\ score = [id \in {fl[i].FlightID : i \in DOMAIN fl} |-> 0]
    /\ eng = new_engine
    /\ eng2 = new_engine
    /\ cp = NoCp

\* FlightConnectionTracker.add_connection(arrival_flight, departure_flight, transfer_window)
AddConnection ==
  \E arrival_flight, departure_flight \in Range(flights), transfer_window \in TransferWindows :
    /\ conns' = add_connection(conns, arrival_flight, departure_flight, transfer_window)
    /\ flights' = mark_critical(flights, arrival_flight, departure_flight, transfer_window)
    /\ cp' = [status |-> "ADDED", arrival |-> arrival_flight.FlightID,
              departure |-> departure_flight.FlightID, window |-> transfer_window]
    /\ UNCHANGED <<stands, maint, settings, bulk, score, eng, eng2>>

\* FlightConnectionTracker.is_valid_connection_time(arrival_flight, departure_flight)
IsValidConnectionTime ==
  \E arrival_flight, departure_flight \in Range(flights) :
    /\ cp' = [status |-> "CHECKED", arrival |-> arrival_flight.FlightID,
              departure |-> departure_flight.FlightID,
              valid |-> is_valid_connection_time(arrival_flight, departure_flight)]
    /\ UNCHANGED <<flights, stands, maint, conns, settings, bulk, score, eng, eng2>>

NextTracker == AddConnection \/ IsValidConnectionTime

SpecTracker == InitTracker /\ [][NextTracker]_vars

(***************************************************************************)
(* C28: is_valid_connection_time(arrival, departure) is true exactly when  *)
(* a transfer window is registered for the pair and the minutes from the   *)
(* arrival to the departure lie within it, 24h being added to the          *)
(* departure only when it is earlier than the arrival and both are         *)
(* time-only; a date-time departure earlier on the arrival's date gives a  *)
(* negative difference and an invalid connection.                          *)
(***************************************************************************)
MinutesBetween(arrival_time, departure_time) ==
  IF departure_time < arrival_time
     /\ IsSentinelDate(arrival_time) /\ IsSentinelDate(departure_time)
  THEN departure_time + MinutesPerDay - arrival_time
  ELSE departure_time - arrival_time

ValidConnection(arrival, departure) ==
  \E c \in conns :
    /\ c.arrival = arrival /\ c.departure = departure
    /\ c.window.min_transfer_minutes
         <= MinutesBetween(FlightOf(arrival).parsed_time, FlightOf(departure).parsed_time)
    /\ MinutesBetween(FlightOf(arrival).parsed_time, FlightOf(departure).parsed_time)
         <= c.window.max_transfer_minutes

C28_ValidConnectionTime ==
  cp.status = "CHECKED" => (cp.valid <=> ValidConnection(cp.arrival, cp.departure))

(***************************************************************************)
(* C29: after any sequence of add_connection calls, both flights of every  *)
(* stored entry with a critical window have is_critical_connection set;    *)
(* a call whose first flight is not an arrival or whose second is not a    *)
(* departure stores nothing and changes no flight.                         *)
(***************************************************************************)
CriticalMarked ==
  \A c \in conns :
    c.window.is_critical =>
      FlightOf(c.arrival).is_critical_connection /\ FlightOf(c.departure).is_critical_connection

WrongDirection(call) ==
  ~FlightOf(call.arrival).IsArrival \/ FlightOf(call.departure).IsArrival

C29_CriticalConnections ==
  [][cp'.status = "ADDED" =>
       /\ CriticalMarked'
       /\ WrongDirection(cp') => (conns' = conns /\ flights' = flights)]_vars

\* a critical entry is stored and the last call was one in the wrong direction
C29_Witness ==
  /\ cp.status = "ADDED" /\ WrongDirection(cp)
  /\ \E c \in conns : c.window.is_critical
(***************************************************************************)
(* C30: during one call of run_allocation, on every path, a CP attempt     *)
(* followed by the greedy fallback included, log_unallocated_flight is     *)
(* invoked at most once per flight and only for flights of the unallocated *)
(* report that the call returns.                                           *)
(***************************************************************************)
TimesLogged(st, id) == Cardinality({k \in DOMAIN st.ai_log : st.ai_log[k].flight = id})

C30_UnallocatedLoggedOnce ==
  eng.pc = "done" =>
    \A id \in FlightIds :
      /\ TimesLogged(eng, id) <= 1
      /\ TimesLogged(eng, id) = 1 =>
           \E k \in DOMAIN eng.unallocated_flights_report :
             eng.unallocated_flights_report[k].flight = id
====
